---- MODULE Spec2Model ----
(***************************************************************************)
(* Model of notebooks/glm-edge-v/gradio_helper.py: make_demo's asset       *)
(* prefetch and the chat handler bot_streaming (image selection, image     *)
(* validation, prompt assembly, threaded generation and streaming).        *)
(***************************************************************************)
EXTENDS Integers, Sequences, FiniteSets, TLC

VARIABLES
    pc,            \* position of the current bot_streaming call
    message,       \* the message argument: [files, text]
    history,       \* the history argument: sequence of [user, assistant]
    image,         \* the local variable image (possibly unbound)
    conversation,  \* the local list conversation
    templateCalls, \* the conversations passed to tokenizer.apply_chat_template
    genState,      \* state of the thread running model.generate
    produced,      \* the text chunks model.generate has put into the streamer
    queue,         \* the streamer's queue between the two threads
    buffer,        \* the local string buffer
    yielded,       \* the values bot_streaming has yielded so far
    fs,            \* the local file system seen by make_demo: name -> content
    pfIdx,         \* make_demo's position in example_image_urls
    pfState,       \* state of the current make_demo prefetch run
    pfRun,         \* number of the current make_demo run
    fetchLog       \* the pairs make_demo examined: run, file name, what it found and did

vars == <<pc, message, history, image, conversation, templateCalls, genState,
          produced, queue, buffer, yielded, fs, pfIdx, pfState, pfRun, fetchLog>>

chatVars == <<pc, message, history, image, conversation, templateCalls,
              genState, produced, queue, buffer, yielded>>

prefetchVars == <<fs, pfIdx, pfState, pfRun, fetchLog>>

-----------------------------------------------------------------------------
(* Bounds of the model. *)

MaxInput == 4     \* most history entries and attached files of one call together
MaxChunks == 2    \* most text chunks one generation produces
MaxRuns == 4      \* most runs of make_demo

-----------------------------------------------------------------------------
(* Python values.  A value is a record [shape, val]: shape is the Python    *)
(* type that the code tests, val identifies the value among its shape.      *)

None == [shape |-> "None", val |-> 0]
Str(n) == [shape |-> "str", val |-> n]
Tuple1(n) == [shape |-> "tuple", val |-> n]   \* the 1-tuple (Str(n),)
Unbound == [shape |-> "unbound", val |-> 0]   \* a local name never assigned
EmptyStr == Str(0)                            \* ""

\* identifiers of the strings the inputs are made of: the code never
\* compares two texts or two paths, so each position gets its own string
UserVal(i) == i
AssistantVal(i) == 10 + i
FileVal(j) == 20 + j
MessageTextVal == 30

\* a history entry at position i: the user element is a text or a 1-tuple
\* holding an image path, the assistant element is a text or None
HistoryEntries(i) ==
    { [user |-> u, assistant |-> a] :
        u \in {Str(UserVal(i)), Tuple1(UserVal(i))},
        a \in {None, Str(AssistantVal(i))} }

\* an attached file at position j: a dict with a "path" key, an object with
\* a .path attribute, a list / tuple, or a plain string
FileValues(j) ==
    { [shape |-> "dict", val |-> FileVal(j), path |-> Str(FileVal(j))],
      [shape |-> "dict", val |-> FileVal(j), path |-> None],
      [shape |-> "obj", val |-> FileVal(j), path |-> Str(FileVal(j))],
      [shape |-> "seq", val |-> FileVal(j), path |-> None],
      [shape |-> "str", val |-> FileVal(j), path |-> None] }

RECURSIVE HistoriesOfLen(_)
HistoriesOfLen(n) ==
    IF n = 0 THEN {<<>>}
    ELSE { Append(h, e) : h \in HistoriesOfLen(n - 1), e \in HistoryEntries(n) }

RECURSIVE FileListsOfLen(_)
FileListsOfLen(n) ==
    IF n = 0 THEN {<<>>}
    ELSE { Append(f, v) : f \in FileListsOfLen(n - 1), v \in FileValues(n) }

Histories(max) == UNION { HistoriesOfLen(n) : n \in 0..max }

FileLists(max) == UNION { FileListsOfLen(n) : n \in 0..max }

Messages(max) == { [files |-> f, text |-> Str(MessageTextVal)] : f \in FileLists(max) }

-----------------------------------------------------------------------------
(* Image selection, lines 25-38. *)

\* the image named by the last attached file; "AttributeError" when the
\* file is a plain string, which has no .path
FileImage(files) ==
    LET f == files[Len(files)] IN
    IF f.shape = "dict" THEN f.path
    ELSE IF f.shape = "seq" THEN [shape |-> "seq", val |-> f.val]
    ELSE IF f.shape = "obj" THEN f.path
    ELSE [shape |-> "AttributeError", val |-> 0]

\* variant of HistoryImage that keeps the first image found
RECURSIVE HistoryImageFirst(_, _, _)
HistoryImageFirst(hist, k, img) ==
    IF k > Len(hist) THEN img
    ELSE IF hist[k].user.shape = "tuple" /\ img = Unbound
         THEN HistoryImageFirst(hist, k + 1, Str(hist[k].user.val))
         ELSE HistoryImageFirst(hist, k + 1, img)

\* the scan of the past turns: every tuple-shaped user element rebinds image
RECURSIVE HistoryImage(_, _, _)
HistoryImage(hist, k, img) ==
    IF k > Len(hist) THEN img
    ELSE IF hist[k].user.shape = "tuple"
         THEN HistoryImage(hist, k + 1, Str(hist[k].user.val))
         ELSE HistoryImage(hist, k + 1, img)

SelectedImage(msg, hist) ==
    IF Len(msg.files) > 0 THEN FileImage(msg.files)
    ELSE HistoryImage(hist, 1, Unbound)

-----------------------------------------------------------------------------
(* Prompt assembly, lines 47-67. *)

TextItem(v) == [type |-> "text", text |-> v]
ImageItem == [type |-> "image", text |-> None]
StrContent == [kind |-> "str", items |-> <<>>]       \* the content ""
ListContent(items) == [kind |-> "list", items |-> items]
Entry(role, content) == [role |-> role, content |-> content]

\* variant of OpenTurn that passes over a turn whose assistant is None
OpenTurnPass(conv) == conv

\* line 53: a turn whose assistant is None opens a user entry
OpenTurn(conv) == Append(conv, Entry("user", StrContent))

\* lines 56-57: the turn after an open one
MergeTurn(conv, user, assistant) ==
    Append([conv EXCEPT ![1].content = ListContent(<<ImageItem, TextItem(user)>>)],
           Entry("assistant", ListContent(<<TextItem(assistant)>>)))

\* lines 60-62: a completed turn
FullTurn(conv, user, assistant) ==
    conv \o << Entry("user", ListContent(<<TextItem(user)>>)),
               Entry("assistant", ListContent(<<TextItem(assistant)>>)) >>

\* variant of FinalTurn that never injects the image placeholder
FinalTurnTextOnly(conv, hist, text) ==
    Append(conv, Entry("user", ListContent(<<TextItem(text)>>)))

\* lines 64-67: the new user turn
FinalTurn(conv, hist, text) ==
    IF Len(hist) = 0
    THEN Append(conv, Entry("user", ListContent(<<ImageItem, TextItem(text)>>)))
    ELSE Append(conv, Entry("user", ListContent(<<TextItem(text)>>)))

\* lines 49-62: the loop over the history, with its local flag
RECURSIVE Assemble(_, _, _, _)
Assemble(hist, k, conv, flag) ==
    IF k > Len(hist) THEN conv
    ELSE LET user == hist[k].user
             assistant == hist[k].assistant
         IN  IF assistant = None
             THEN Assemble(hist, k + 1, OpenTurn(conv), TRUE)
             ELSE IF flag
                  THEN Assemble(hist, k + 1, MergeTurn(conv, user, assistant), FALSE)
                  ELSE Assemble(hist, k + 1, FullTurn(conv, user, assistant), FALSE)

Conversation(msg, hist) == FinalTurn(Assemble(hist, 1, <<>>, FALSE), hist, msg.text)

-----------------------------------------------------------------------------
(* The chat handler bot_streaming. *)

ChatInit ==
    /\ pc = "idle"
    /\ message = [files |-> <<>>, text |-> Str(MessageTextVal)]
    /\ history = <<>>
    /\ image = Unbound
    /\ conversation = <<>>
    /\ templateCalls = <<>>
    /\ genState = "not_started"
    /\ produced = <<>>
    /\ queue = <<>>
    /\ buffer = <<>>
    /\ yielded = <<>>

\* the UI calls bot_streaming(message, history)
Call ==
    /\ pc = "idle"
    /\ \E h \in Histories(MaxInput) :
          \E m \in Messages(MaxInput - Len(h)) :
             /\ message' = m
             /\ history' = h
    /\ pc' = "called"
    /\ UNCHANGED <<image, conversation, templateCalls, genState, produced,
                   queue, buffer, yielded>>
    /\ UNCHANGED prefetchVars

\* lines 25-38
SelectImage ==
    /\ pc = "called"
    /\ LET img == SelectedImage(message, history) IN
          IF img.shape = "AttributeError"
          THEN pc' = "attr_error" /\ image' = image
          ELSE pc' = "selected" /\ image' = img
    /\ UNCHANGED <<message, history, conversation, templateCalls, genState,
                   produced, queue, buffer, yielded>>
    /\ UNCHANGED prefetchVars

\* variant of ImageMissing that only sees an image that is None
ImageMissingNoneOnly(img) == img = None

\* lines 39-45: reading an unbound image raises NameError, which is turned
\* into gr.Error; an image that is None raises gr.Error as well
ImageMissing(img) == img = Unbound \/ img = None

CheckImage ==
    /\ pc = "selected"
    /\ pc' = IF ImageMissing(image) THEN "gr_error" ELSE "checked"
    /\ UNCHANGED <<message, history, image, conversation, templateCalls,
                   genState, produced, queue, buffer, yielded>>
    /\ UNCHANGED prefetchVars

\* lines 47-67
BuildConversation ==
    /\ pc = "checked"
    /\ conversation' = Conversation(message, history)
    /\ pc' = "built"
    /\ UNCHANGED <<message, history, image, templateCalls, genState, produced,
                   queue, buffer, yielded>>
    /\ UNCHANGED prefetchVars

\* line 69
ApplyChatTemplate ==
    /\ pc = "built"
    /\ templateCalls' = Append(templateCalls, conversation)
    /\ pc' = "templated"
    /\ UNCHANGED <<message, history, image, conversation, genState, produced,
                   queue, buffer, yielded>>
    /\ UNCHANGED prefetchVars

\* lines 70-82: Image.open(image) raises for an image that is no path or
\* that cannot be read; otherwise the generation thread is started
StartGeneration ==
    /\ pc = "templated"
    /\ \/ /\ image.shape = "str"
          /\ pc' = "streaming"
          /\ genState' = "running"
       \/ /\ pc' = "open_error"
          /\ genState' = genState
    /\ UNCHANGED <<message, history, image, conversation, templateCalls,
                   produced, queue, buffer, yielded>>
    /\ UNCHANGED prefetchVars

-----------------------------------------------------------------------------
(* The generation thread (line 81) and the streamer between the threads.   *)
(* A queue item is a text chunk or the stop signal that ends the stream.   *)

Chunk(k) == [stop |-> FALSE, text |-> <<k>>]
StopSignal == [stop |-> TRUE, text |-> <<>>]

\* model.generate hands the next chunk of decoded text to the streamer
GeneratePut ==
    /\ genState = "running"
    /\ Len(produced) < MaxChunks
    /\ produced' = Append(produced, Chunk(Len(produced) + 1).text)
    /\ queue' = Append(queue, Chunk(Len(produced) + 1))
    /\ UNCHANGED <<pc, message, history, image, conversation, templateCalls,
                   genState, buffer, yielded>>
    /\ UNCHANGED prefetchVars

\* model.generate returns: the streamer is ended and the thread finishes
GenerateEnd ==
    /\ genState = "running"
    /\ queue' = Append(queue, StopSignal)
    /\ genState' = "finished"
    /\ UNCHANGED <<pc, message, history, image, conversation, templateCalls,
                   produced, buffer, yielded>>
    /\ UNCHANGED prefetchVars

\* model.generate raises: the thread dies and the stream is never ended
GenerateDie ==
    /\ genState = "running"
    /\ genState' = "died"
    /\ UNCHANGED <<pc, message, history, image, conversation, templateCalls,
                   produced, queue, buffer, yielded>>
    /\ UNCHANGED prefetchVars

-----------------------------------------------------------------------------
(* The consuming loop, lines 84-87. *)

\* variant of Accumulate that replaces the buffer by the new text
AccumulateReplace(buf, newText) == newText

\* line 86
Accumulate(buf, newText) == buf \o newText

\* lines 85-87: the next chunk arrives, buffer grows and is yielded
ConsumeChunk ==
    /\ pc = "streaming"
    /\ Len(queue) > 0
    /\ ~ Head(queue).stop
    /\ queue' = Tail(queue)
    /\ buffer' = Accumulate(buffer, Head(queue).text)
    /\ yielded' = Append(yielded, buffer')
    /\ UNCHANGED <<pc, message, history, image, conversation, templateCalls,
                   genState, produced>>
    /\ UNCHANGED prefetchVars

\* line 85: the stop signal ends the iteration and bot_streaming returns
ConsumeStop ==
    /\ pc = "streaming"
    /\ Len(queue) > 0
    /\ Head(queue).stop
    /\ queue' = Tail(queue)
    /\ pc' = "done"
    /\ UNCHANGED <<message, history, image, conversation, templateCalls,
                   genState, produced, buffer, yielded>>
    /\ UNCHANGED prefetchVars

\* variant of ConsumeTimeout for a streamer without a timeout
ConsumeNoTimeout == FALSE /\ UNCHANGED vars

\* lines 70, 85: nothing arrives within the streamer's timeout and the wait
\* for the next chunk raises
ConsumeTimeout ==
    /\ pc = "streaming"
    /\ Len(queue) = 0
    /\ pc' = "timeout"
    /\ UNCHANGED <<message, history, image, conversation, templateCalls,
                   genState, produced, queue, buffer, yielded>>
    /\ UNCHANGED prefetchVars

Consume == ConsumeChunk \/ ConsumeStop \/ ConsumeTimeout

-----------------------------------------------------------------------------
(* make_demo's asset prefetch, lines 13-20. *)

example_image_urls == << "small.png", "chart.png" >>

FileNames == { example_image_urls[i] : i \in 1..Len(example_image_urls) }

\* variant of Exists that takes every file for missing
ExistsNever(f, name) == FALSE

\* line 19
Exists(f, name) == f[name] # "absent"

PrefetchInit ==
    /\ fs \in [FileNames -> {"absent", "local"}]
    /\ pfIdx = 1
    /\ pfState = "running"
    /\ pfRun = 1
    /\ fetchLog = <<>>

\* line 19 (and line 18 for the end of the loop)
Advance ==
    /\ pfIdx' = pfIdx + 1
    /\ pfState' = IF pfIdx = Len(example_image_urls) THEN "done" ELSE "running"

\* lines 18-19: the file exists and the pair is passed over
PrefetchSkip ==
    /\ pfState = "running"
    /\ Exists(fs, example_image_urls[pfIdx])
    /\ fetchLog' = Append(fetchLog, [run |-> pfRun, name |-> example_image_urls[pfIdx],
                                     existed |-> fs[example_image_urls[pfIdx]] # "absent",
                                     fetched |-> FALSE, saved |-> FALSE])
    /\ Advance
    /\ UNCHANGED <<fs, pfRun>>
    /\ UNCHANGED chatVars

\* lines 18-20: the file is missing, it is fetched and saved
PrefetchFetch ==
    /\ pfState = "running"
    /\ ~ Exists(fs, example_image_urls[pfIdx])
    /\ fs' = [fs EXCEPT ![example_image_urls[pfIdx]] = "fetched"]
    /\ fetchLog' = Append(fetchLog, [run |-> pfRun, name |-> example_image_urls[pfIdx],
                                     existed |-> fs[example_image_urls[pfIdx]] # "absent",
                                     fetched |-> TRUE, saved |-> TRUE])
    /\ Advance
    /\ UNCHANGED pfRun
    /\ UNCHANGED chatVars

\* line 20: the fetch raises (network error) and make_demo ends with it
PrefetchFail ==
    /\ pfState = "running"
    /\ ~ Exists(fs, example_image_urls[pfIdx])
    /\ pfState' = "failed"
    /\ fetchLog' = Append(fetchLog, [run |-> pfRun, name |-> example_image_urls[pfIdx],
                                     existed |-> fs[example_image_urls[pfIdx]] # "absent",
                                     fetched |-> TRUE, saved |-> FALSE])
    /\ UNCHANGED <<fs, pfIdx, pfRun>>
    /\ UNCHANGED chatVars

\* make_demo is called again
MakeDemoAgain ==
    /\ pfState \in {"done", "failed"}
    /\ pfRun < MaxRuns
    /\ pfRun' = pfRun + 1
    /\ pfIdx' = 1
    /\ pfState' = "running"
    /\ UNCHANGED <<fs, fetchLog>>
    /\ UNCHANGED chatVars

-----------------------------------------------------------------------------
(* Specifications. *)

\* bot_streaming, called after make_demo has returned with the example
\* images present
PrefetchDone ==
    /\ fs = [n \in FileNames |-> "local"]
    /\ pfIdx = Len(example_image_urls) + 1
    /\ pfState = "done"
    /\ pfRun = 1
    /\ fetchLog = [i \in 1..Len(example_image_urls) |->
                     [run |-> 1, name |-> example_image_urls[i],
                      existed |-> TRUE, fetched |-> FALSE, saved |-> FALSE]]

Init == ChatInit /\ PrefetchDone

Next ==
    \/ Call
    \/ SelectImage
    \/ CheckImage
    \/ BuildConversation
    \/ ApplyChatTemplate
    \/ StartGeneration
    \/ GeneratePut
    \/ GenerateEnd
    \/ GenerateDie
    \/ ConsumeChunk
    \/ ConsumeStop
    \/ ConsumeTimeout

Spec == Init /\ [][Next]_vars

\* the calling thread keeps running: a waiting consumer gets its chunk, the
\* stop signal or the timeout.  The generation thread is given no fairness:
\* it may stall or die at any point.
FairSpec == Spec /\ WF_vars(Consume)

\* make_demo's prefetch, from any state of the local files
InitPrefetch == ChatInit /\ PrefetchInit

NextPrefetch ==
    \/ PrefetchSkip
    \/ PrefetchFetch
    \/ PrefetchFail
    \/ MakeDemoAgain

SpecPrefetch == InitPrefetch /\ [][NextPrefetch]_vars

-----------------------------------------------------------------------------
(* Properties. *)

\* the states in which the conversation list has been built
Built == pc \in {"built", "templated", "streaming", "done", "timeout", "open_error"}

\* the states in which generation has been started
Generating == pc \in {"streaming", "done", "timeout"}

NoneAt(hist, k) == k \in 1..Len(hist) /\ hist[k].assistant = None

\* the number of conversation entries that history entry k stands for
Contrib(hist, k) ==
    IF NoneAt(hist, k) THEN 1 ELSE IF NoneAt(hist, k - 1) THEN 1 ELSE 2

RECURSIVE ContribSum(_, _)
ContribSum(hist, k) == IF k = 0 THEN 0 ELSE ContribSum(hist, k - 1) + Contrib(hist, k)

\* the place in the conversation of the user entry of history entry k
Pos(hist, k) == ContribSum(hist, k - 1) + 1

HasImage(entry) ==
    /\ entry.content.kind = "list"
    /\ \E n \in 1..Len(entry.content.items) : entry.content.items[n].type = "image"

\* the texts that an entry carries
TextsOf(entry) ==
    { entry.content.items[n].text :
        n \in { m \in 1..Len(entry.content.items) : entry.content.items[m].type = "text" } }

TupleTurns(hist) == { k \in 1..Len(hist) : hist[k].user.shape = "tuple" }

\* an image was found: image is bound to the path of an image
ImageFound == image.shape = "str"

NoImageAnywhere == Len(message.files) = 0 /\ TupleTurns(history) = {}

RECURSIVE Concat(_, _)
Concat(chunks, k) == IF k = 0 THEN <<>> ELSE Concat(chunks, k - 1) \o chunks[k]

\* C1 (as stated): every conversation passed to apply_chat_template has
\* exactly len(history)*2 + 1 entries.
C1_LengthTwicePlusOne ==
    ImageFound =>
        \A c \in 1..Len(templateCalls) :
            Len(templateCalls[c]) = Len(history) * 2 + 1

\* C1 (amended): every conversation passed to apply_chat_template has
\* len(history)*2 + 1 entries less one for every history entry whose
\* assistant is None and less one for every entry with an assistant that
\* directly follows such an entry.
C1_LengthCountsOpenTurns ==
    ImageFound =>
        \A c \in 1..Len(templateCalls) :
            Len(templateCalls[c]) =
                Len(history) * 2 + 1
                - Cardinality({ k \in 1..Len(history) : NoneAt(history, k) })
                - Cardinality({ k \in 1..Len(history) :
                                  ~ NoneAt(history, k) /\ NoneAt(history, k - 1) })

C1_Witness ==
    /\ Len(templateCalls) > 0
    /\ ImageFound
    /\ Len(history) = 3
    /\ NoneAt(history, 1) /\ ~ NoneAt(history, 2) /\ NoneAt(history, 3)

\* C2: the roles of the conversation alternate user, assistant, user, ...
\* from a first user entry to the last user entry, which carries the new
\* message text.
C2_RolesAlternate ==
    ImageFound =>
        \A c \in 1..Len(templateCalls) :
            LET conv == templateCalls[c] IN
            /\ \A k \in 1..Len(conv) :
                  conv[k].role = IF k % 2 = 1 THEN "user" ELSE "assistant"
            /\ conv[Len(conv)].role = "user"
            /\ TextsOf(conv[Len(conv)]) = {message.text}

\* C3: with no attached file and no tuple-shaped user element in the
\* history the call ends in the upload-required error: it gets no further
\* than the image check, builds no conversation, never calls
\* apply_chat_template, starts no generation thread and yields nothing; in
\* every call the check precedes prompt assembly and generation.
C3_NoImageFailsFast ==
    /\ (pc # "idle" /\ NoImageAnywhere) =>
          /\ pc \in {"called", "selected", "gr_error"}
          /\ pc = "selected" => image = Unbound
          /\ conversation = <<>>
          /\ templateCalls = <<>>
          /\ genState = "not_started"
          /\ yielded = <<>>
    /\ (Built \/ templateCalls # <<>> \/ genState # "not_started") =>
          (image # Unbound /\ image # None)

C3_Witness ==
    /\ pc = "gr_error"
    /\ NoImageAnywhere
    /\ Len(history) >= 2

\* C4: whenever generation is started, the first entry of the conversation
\* is a user entry that contains the image placeholder and no later entry
\* contains one.
C4_ImageInFirstEntryOnly ==
    Generating =>
        /\ conversation[1].role = "user"
        /\ HasImage(conversation[1])
        /\ \A k \in 2..Len(conversation) : ~ HasImage(conversation[k])

\* C5: for every history entry i whose assistant is None and that is
\* followed by an entry with an assistant, the user entry opened for entry i
\* carries the user text of entry i+1 and is directly followed by the
\* assistant entry of entry i+1; every other user turn keeps the text that
\* the history gives it.
C5_MergedIntoOpenTurn ==
    (Built /\ ImageFound) =>
        /\ \A i \in 1..(Len(history) - 1) :
              (NoneAt(history, i) /\ ~ NoneAt(history, i + 1)) =>
                  /\ conversation[Pos(history, i)].role = "user"
                  /\ conversation[Pos(history, i)].content.kind = "list"
                  /\ TextsOf(conversation[Pos(history, i)]) = {history[i + 1].user}
                  /\ conversation[Pos(history, i) + 1].role = "assistant"
                  /\ TextsOf(conversation[Pos(history, i) + 1]) = {history[i + 1].assistant}
        /\ \A j \in 1..Len(history) :
              (~ NoneAt(history, j) /\ ~ NoneAt(history, j - 1)) =>
                  /\ conversation[Pos(history, j)].role = "user"
                  /\ conversation[Pos(history, j)].content.kind = "list"
                  /\ TextsOf(conversation[Pos(history, j)]) = {history[j].user}

\* C6: with an empty history and at least one attached file the
\* conversation is one user entry: the image placeholder followed by a text
\* item with the message text.
C6_EmptyHistoryFirstTurn ==
    (Built /\ Len(history) = 0 /\ Len(message.files) > 0) =>
        /\ Len(conversation) = 1
        /\ conversation[1].role = "user"
        /\ conversation[1].content.kind = "list"
        /\ conversation[1].content.items =
              << [type |-> "image", text |-> None],
                 [type |-> "text", text |-> message.text] >>
        /\ \A c \in 1..Len(templateCalls) : templateCalls[c] = conversation

C6_Witness ==
    /\ Len(templateCalls) > 0
    /\ Len(history) = 0
    /\ Len(message.files) = 2

\* C7: the k-th yielded value is the concatenation of the first k chunks
\* that the generation thread produced, in the order produced; nothing is
\* yielded before its chunk is produced and buffer is the last value yielded.
C7_YieldsArePrefixes ==
    /\ Len(yielded) <= Len(produced)
    /\ \A k \in 1..Len(yielded) : yielded[k] = Concat(produced, k)
    /\ buffer = Concat(produced, Len(yielded))

C7_Witness ==
    /\ Len(yielded) >= 2
    /\ genState = "running"

\* C8: once generation is started the consuming loop ends: normally, after
\* the generation thread has finished and ended the stream, or with a
\* timeout while nothing is waiting in the streamer; after it has ended
\* nothing more is yielded.
C8_ConsumerEnds ==
    /\ (pc = "streaming") ~> (pc \in {"done", "timeout"})
    /\ [](pc = "done" => genState = "finished")
    /\ [][(pc = "streaming" /\ pc' = "timeout") => queue = <<>>]_vars
    /\ [][(pc \in {"done", "timeout"}) => (pc' = pc /\ yielded' = yielded)]_vars

C8_Witness ==
    /\ pc = "timeout"
    /\ genState = "died"
    /\ Len(yielded) >= 1

\* C9: a pair is fetched and saved exactly when its file did not exist when
\* the pair was examined; an existing file is never overwritten; after a
\* run in which nothing failed every listed file exists and a later run
\* fetches and writes nothing.
\* the files that run examined without a failure
Passed(run) ==
    { fetchLog[n].name :
        n \in { m \in 1..Len(fetchLog) :
                  fetchLog[m].run = run /\ (fetchLog[m].fetched => fetchLog[m].saved) } }

C9_FetchOnlyMissing ==
    /\ \A n \in 1..Len(fetchLog) :
          /\ fetchLog[n].fetched <=> ~ fetchLog[n].existed
          /\ fetchLog[n].saved => fetchLog[n].fetched
    /\ \A name \in FileNames :
          /\ fs[name] = "local" =>
                \A n \in 1..Len(fetchLog) : fetchLog[n].name = name => ~ fetchLog[n].fetched
          /\ Cardinality({ n \in 1..Len(fetchLog) :
                             fetchLog[n].name = name /\ fetchLog[n].saved }) <= 1
    /\ pfState = "done" => \A name \in FileNames : fs[name] # "absent"
    /\ \A n \in 1..Len(fetchLog) :
          (\E r \in 1..(fetchLog[n].run - 1) : Passed(r) = FileNames) =>
              ~ fetchLog[n].fetched

C9_Witness ==
    /\ pfRun = 2
    /\ pfState = "done"
    /\ \A name \in FileNames : fs[name] = "fetched"
    /\ Passed(1) = FileNames
    /\ Passed(2) = FileNames

\* C10: the image used is the most recent one: the last attached file when
\* the message has files, otherwise the image of the last history entry
\* whose user element is a tuple.
C10_MostRecentImage ==
    Generating =>
        IF Len(message.files) > 0
        THEN image = Str(message.files[Len(message.files)].val)
        ELSE /\ TupleTurns(history) # {}
             /\ \E k \in TupleTurns(history) :
                   /\ \A m \in TupleTurns(history) : m <= k
                   /\ image = Str(history[k].user.val)

C10_Witness ==
    /\ pc = "streaming"
    /\ Len(message.files) = 0
    /\ Cardinality(TupleTurns(history)) >= 2

====
